---- MODULE Spec2Model ----
(***************************************************************************)
(* Model of the auto-ingress operator (src/operator/operator.py): a kopf   *)
(* operator that derives an Ingress from the `auto-ingress` annotation of  *)
(* a Service.  Handlers are modelled at the granularity of single cluster  *)
(* calls (list / delete / create / patch); the cluster is a set of Ingress *)
(* objects shared with other actors.                                       *)
(*                                                                         *)
(* Python strings that the code concatenates or prefix-tests (object names *)
(* and service names) are sequences of characters, so that f-string        *)
(* formatting, str(int) and str.startswith are computed, not assumed.      *)
(***************************************************************************)
EXTENDS Integers, Sequences, FiniteSets, TLC

VARIABLES
    cluster,    \* the Ingress objects stored by the API server (all namespaces)
    pc,         \* per handler slot: position in the handler
    ev,         \* per handler slot: the event (handler arguments) being handled
    items,      \* per handler slot: listed Ingresses the loop has not visited yet
    calls,      \* per handler slot: cluster calls issued by the invocation, in order
    infos,      \* per handler slot: kopf.info records made by the invocation, in order
    outcome,    \* per handler slot: how the invocation ended
    before,     \* per handler slot: the cluster when the invocation was entered
    quiet,      \* per handler slot: no other actor has mutated the cluster since then
    prior,      \* per handler slot: the previous delivery of the same event, if any
    nruns,      \* number of handler invocations started so far
    nother,     \* number of mutations made by other actors so far
    fnArgs,     \* arguments of a direct call of one of the pure functions
    fnRes       \* its result

vars == <<cluster, pc, ev, items, calls, infos, outcome, before, quiet, prior,
          nruns, nother, fnArgs, fnRes>>

-----------------------------------------------------------------------------
(* Bounds of the model *)

MaxRuns == 2        \* handler invocations per behaviour
MaxOther == 1       \* mutations by other actors per behaviour
MaxFnPorts == 2     \* length of the port list in direct find_http_port calls

-----------------------------------------------------------------------------
(* Program constants *)

INGRESS_CLASS_ANNOTATION == "traefik.ingress.kubernetes.io/router.entrypoints"
INGRESS_CLASS_VALUE == "web"
AUTO_INGRESS_ANNOTATION == "auto-ingress"
RETRY_DELAY == 10
HTTP_CONFLICT == 409

\* the literal "auto-ingress-" of the two f-strings
AutoIngressDash == <<"a","u","t","o","-","i","n","g","r","e","s","s","-">>
Dash == <<"-">>
HttpName == <<"h","t","t","p">>

-----------------------------------------------------------------------------
(* Python string helpers *)

\* str.startswith
StartsWith(s, prefix) ==
    /\ Len(s) >= Len(prefix)
    /\ SubSeq(s, 1, Len(prefix)) = prefix

DigitChar(d) ==
    CASE d = 0 -> "0" [] d = 1 -> "1" [] d = 2 -> "2" [] d = 3 -> "3"
      [] d = 4 -> "4" [] d = 5 -> "5" [] d = 6 -> "6" [] d = 7 -> "7"
      [] d = 8 -> "8" [] d = 9 -> "9"

\* str(n) for a non-negative int
RECURSIVE IntToStr(_)
IntToStr(n) ==
    IF n < 10 THEN <<DigitChar(n)>>
    ELSE Append(IntToStr(n \div 10), DigitChar(n % 10))

-----------------------------------------------------------------------------
(* Ports: the dicts of spec.ports.  `keys` is the set of keys the dict has; *)
(* name = <<>> stands for a falsy name (None or ""), targetPort = 0 for a  *)
(* falsy targetPort (None or 0).                                           *)

Port(keys, name, port, targetPort) ==
    [keys |-> keys, name |-> name, port |-> port, targetPort |-> targetPort]

AllKeys == {"name", "port", "targetPort"}

HttpPort == Port(AllKeys, HttpName, 80, 8080)
MetricsPort == Port(AllKeys, <<"m","e","t","r","i","c","s">>, 9090, 0)
BarePort == Port(AllKeys, <<>>, 9090, 0)
NoNamePort == Port({"port", "targetPort"}, <<>>, 80, 80)
NoTargetPort == Port({"name", "port"}, HttpName, 80, 0)
NoPortKeyNamed == Port({"name", "targetPort"}, HttpName, 0, 8080)
NoPortKeyBare == Port({"name", "targetPort"}, <<>>, 0, 8080)
NoPortKeyNoTarget == Port({"name", "targetPort"}, HttpName, 0, 0)
NoPort == Port({}, <<>>, 0, 0)

RECURSIVE SeqsUpTo(_, _)
SeqsUpTo(S, n) ==
    IF n = 0 THEN {<<>>}
    ELSE LET shorter == SeqsUpTo(S, n - 1)
         IN  shorter \cup {Append(s, x) : s \in shorter, x \in S}

-----------------------------------------------------------------------------
(* The pure functions *)

\* build_ingress_name(service_name, port_name)
build_ingress_name(service_name, port_name) ==
    AutoIngressDash \o service_name \o Dash \o port_name

\* the prefix f"auto-ingress-{name}" both handlers filter with
ingress_name_prefix(name) == AutoIngressDash \o name

\* result of an evaluation that may raise: kind is "value", "None" or the
\* name of the exception raised
Value(v) == [kind |-> "value", val |-> v]
NoneValue == [kind |-> "None", val |-> NoPort]
Raised(exc) == [kind |-> exc, val |-> NoPort]

\* the for loop of find_http_port from index i on
RECURSIVE FindHttpFrom(_, _)
FindHttpFrom(ports, i) ==
    IF i > Len(ports)
    THEN IF Len(ports) > 0 THEN Value(ports[1]) ELSE NoneValue
    ELSE IF "name" \notin ports[i].keys THEN Raised("KeyError")
    ELSE IF ports[i].name = HttpName THEN Value(ports[i])
    ELSE FindHttpFrom(ports, i + 1)

find_http_port(ports) == FindHttpFrom(ports, 1)

\* V1Ingress as built by create_ingress_object: metadata (name, namespace,
\* annotations, owner_references) and spec.rules[*].http.paths[*]
OwnerReference(service_name, uid) ==
    [api_version |-> "v1", kind |-> "Service", name |-> service_name,
     uid |-> uid, controller |-> TRUE, block_owner_deletion |-> TRUE]

IngressPath(path, service_name, number) ==
    [path |-> path, path_type |-> "Prefix",
     backend_name |-> service_name, backend_number |-> number]

Ingress(name, namespace, annotations, owners, rules) ==
    [name |-> name, namespace |-> namespace, annotations |-> annotations,
     owner_references |-> owners, rules |-> rules]

NoIngress == Ingress(<<>>, "", {}, <<>>, <<>>)
Built(obj) == [kind |-> "value", obj |-> obj]
BuildRaised(exc) == [kind |-> exc, obj |-> NoIngress]

\* port['name'] or str(port['port'])
PortIdentifier(port) ==
    IF port.name # <<>> THEN port.name ELSE IntToStr(port.port)

\* port['targetPort'] or port['port']
BackendNumber(port) ==
    IF port.targetPort # 0 THEN port.targetPort ELSE port.port

create_ingress_object_port_only(namespace, service_name, path, port) ==
    IF \/ "name" \notin port.keys
       \/ port.name = <<>> /\ "port" \notin port.keys
       \/ "targetPort" \notin port.keys
       \/ port.targetPort = 0 /\ "port" \notin port.keys
    THEN BuildRaised("KeyError")
    ELSE Built(Ingress(
            build_ingress_name(service_name, PortIdentifier(port)),
            namespace,
            {<<INGRESS_CLASS_ANNOTATION, INGRESS_CLASS_VALUE>>},
            <<OwnerReference(service_name, "")>>,
            <<[paths |-> <<IngressPath(path, service_name, port.port)>>]>>))

create_ingress_object(namespace, service_name, path, port) ==
    IF \/ "name" \notin port.keys
       \/ port.name = <<>> /\ "port" \notin port.keys
       \/ "targetPort" \notin port.keys
       \/ port.targetPort = 0 /\ "port" \notin port.keys
    THEN BuildRaised("KeyError")
    ELSE Built(Ingress(
            build_ingress_name(service_name, PortIdentifier(port)),
            namespace,
            {<<INGRESS_CLASS_ANNOTATION, INGRESS_CLASS_VALUE>>},
            <<OwnerReference(service_name, "")>>,
            <<[paths |-> <<IngressPath(path, service_name, BackendNumber(port))>>]>>))

-----------------------------------------------------------------------------
(* Events delivered by the operator runtime *)

Svc == <<"s","v","c">>
Svc2 == <<"s","v","c","2">>
SvcA == <<"s","v","c","-","a">>

\* Service objects the cluster may hold: (namespace, name, uid).  "u2" is
\* the Service ns1/svc deleted and created again.
ServiceIds ==
    { [namespace |-> "ns1", name |-> Svc,  uid |-> "u1"],
      [namespace |-> "ns1", name |-> Svc,  uid |-> "u2"],
      [namespace |-> "ns1", name |-> Svc2, uid |-> "u3"],
      [namespace |-> "ns2", name |-> Svc,  uid |-> "u4"] }

Paths == {"/app", "/api"}

\* the values of spec.ports delivered
EventPortLists ==
    { <<>>, <<HttpPort>>, <<BarePort>>, <<MetricsPort, HttpPort>>,
      <<NoNamePort>>, <<NoTargetPort>>, <<NoPortKeyBare>>,
      <<NoPortKeyNoTarget>> }

\* metadata.annotations: a set of <<key, value>> pairs
AnnotationSets ==
    {{}} \cup {{<<AUTO_INGRESS_ANNOTATION, path>>} : path \in Paths}

Event(handler, id, annotations, ports) ==
    [handler |-> handler, name |-> id.name, namespace |-> id.namespace,
     uid |-> id.uid, annotations |-> annotations, ports |-> ports]

\* create/update events; spec.ports is not read when the annotation is
\* absent, so one port list stands for all of them there
ManageEvents ==
    {Event("manage_ingress", id, {}, <<HttpPort>>) : id \in ServiceIds}
    \cup {Event("manage_ingress", id, a, ports) :
            id \in ServiceIds, a \in AnnotationSets \ {{}}, ports \in EventPortLists}

\* delete events; cleanup_ingress takes name and namespace and ignores the
\* rest, of which the annotations of the deleted Service are kept here
CleanupEvents ==
    {Event("cleanup_ingress", id, a, <<>>) :
        id \in {i \in ServiceIds : i.uid # "u2"}, a \in AnnotationSets}

Events == ManageEvents \cup CleanupEvents

NoEvent == Event("none", [namespace |-> "", name |-> <<>>, uid |-> ""], {}, <<>>)

HasAnnotation(annotations, key) == \E kv \in annotations : kv[1] = key
AnnotationValue(annotations, key) ==
    (CHOOSE kv \in annotations : kv[1] = key)[2]

-----------------------------------------------------------------------------
(* The cluster: Ingress objects keyed by (namespace, name) *)

Stored(objs, namespace, name) ==
    {i \in objs : i.namespace = namespace /\ i.name = name}

Exists(objs, namespace, name) == Stored(objs, namespace, name) # {}

\* list_namespaced_ingress(namespace).items
ListNamespaced(objs, namespace) == {i \in objs : i.namespace = namespace}

\* the objects left by delete_namespaced_ingress(name, namespace)
DeleteNamespaced_nothing(objs, name, namespace) == objs
DeleteNamespaced_any_namespace(objs, name, namespace) ==
    {i \in objs : i.name # name}

DeleteNamespaced(objs, name, namespace) == objs \ Stored(objs, namespace, name)

\* the objects left by create_namespaced_ingress(namespace, body)
CreateNamespaced(objs, namespace, body) == objs \cup {body}

\* annotations of a patched object: the keys of the body override
MergeAnnotations(old, new) ==
    {kv \in old : ~HasAnnotation(new, kv[1])} \cup new

\* the objects left by patch_namespaced_ingress(name, namespace, body)
PatchNamespaced_unchanged(objs, name, namespace, body) == objs

PatchNamespaced(objs, name, namespace, body) ==
    (objs \ Stored(objs, namespace, name))
    \cup { Ingress(i.name, i.namespace,
                   MergeAnnotations(i.annotations, body.annotations),
                   body.owner_references, body.rules)
           : i \in Stored(objs, namespace, name) }

\* Ingress objects other actors create
ManualName == <<"m","a","n","u","a","l">>
ForeignIngresses ==
    { Ingress(ManualName, "ns1", {}, <<>>,
              <<[paths |-> <<IngressPath("/manual", Svc, 80)>>]>>),
      Ingress(build_ingress_name(Svc, HttpName), "ns1",
              {<<"owner", "team-a">>}, <<>>,
              <<[paths |-> <<IngressPath("/legacy", Svc, 80)>>]>>) }

-----------------------------------------------------------------------------
(* Handler invocations *)

Slots == {1}

Call(op, namespace, name, body, status) ==
    [op |-> op, namespace |-> namespace, name |-> name, body |-> body,
     status |-> status]

Info(reason, about) == [reason |-> reason, about |-> about]

\* the reason codes of lines 81 and 118, 99, 104
ReasonDeleted == "IngressDeleted"
ReasonCreated == "IngressCreated"
ReasonPatched_as_updated == "IngressUpdated"
ReasonPatched == "IngressPatched"

Returned == [kind |-> "returned", delay |-> 0]
Running == [kind |-> "running", delay |-> 0]
TemporaryError == [kind |-> "TemporaryError", delay |-> RETRY_DELAY]
ApiException == [kind |-> "ApiException", delay |-> 0]
KeyError == [kind |-> "KeyError", delay |-> 0]
\* an exception raised by kopf.info; no except clause of the handlers names it
RecordingError == [kind |-> "RecordingError", delay |-> 0]

\* the previous delivery of the event: "run" with its outcome, calls and
\* the cluster it started from; "interfered" when another actor has
\* mutated the cluster since; "none" for a first delivery
Prior(kind, out, cs, objs) ==
    [kind |-> kind, outcome |-> out, calls |-> cs, before |-> objs]
NoPrior == Prior("none", Running, <<>>, {})
Interfered == Prior("interfered", Running, <<>>, {})

Ops(cs) == [k \in 1..Len(cs) |-> cs[k].op]
Statuses(cs) == [k \in 1..Len(cs) |-> cs[k].status]

\* the members of `objs` that the handler's startswith filter selects
Family_http_only(objs, name) ==
    {i \in objs : i.name = build_ingress_name(name, HttpName)}

Family(objs, name) ==
    {i \in objs : StartsWith(i.name, ingress_name_prefix(name))}

\* lines 92-93: the built object with the event's uid stitched in
WithUid_placeholder_kept(obj, uid) == obj

WithUid(obj, uid) ==
    [obj EXCEPT !.owner_references =
        [k \in 1..Len(obj.owner_references) |->
            IF k = 1 THEN [obj.owner_references[1] EXCEPT !.uid = uid]
            ELSE obj.owner_references[k]]]

\* lines 86-93: what manage_ingress computes before its first cluster call
\* when the annotation is present
Desired_without_port_check(e) ==
    LET path == AnnotationValue(e.annotations, AUTO_INGRESS_ANNOTATION)
        port == find_http_port(e.ports)
    IN  IF port.kind = "KeyError" THEN BuildRaised("KeyError")
        ELSE LET built == create_ingress_object(e.namespace, e.name, path, port.val)
             IN  IF built.kind # "value" THEN built
                 ELSE Built(WithUid(built.obj, e.uid))

Desired(e) ==
    LET path == AnnotationValue(e.annotations, AUTO_INGRESS_ANNOTATION)
        port == find_http_port(e.ports)
    IN  IF port.kind = "KeyError" THEN BuildRaised("KeyError")
        ELSE IF port.kind = "None" THEN BuildRaised("TemporaryError")
        ELSE LET built == create_ingress_object(e.namespace, e.name, path, port.val)
             IN  IF built.kind # "value" THEN built
                 ELSE Built(WithUid(built.obj, e.uid))

\* direct calls of the pure functions: arguments and result
FnArgs(ports, s1, s2, pid) == [ports |-> ports, s1 |-> s1, s2 |-> s2, pid |-> pid]
FnRes(op, sel, name, matched) ==
    [op |-> op, sel |-> sel, name |-> name, matched |-> matched]
NoFnArgs == FnArgs(<<>>, <<>>, <<>>, <<>>)
NoFnRes == FnRes("none", NoneValue, <<>>, FALSE)

Init ==
    /\ cluster = {}
    /\ pc = [p \in Slots |-> "idle"]
    /\ ev = [p \in Slots |-> NoEvent]
    /\ items = [p \in Slots |-> {}]
    /\ calls = [p \in Slots |-> <<>>]
    /\ infos = [p \in Slots |-> <<>>]
    /\ outcome = [p \in Slots |-> Running]
    /\ before = [p \in Slots |-> {}]
    /\ quiet = [p \in Slots |-> TRUE]
    /\ prior = [p \in Slots |-> NoPrior]
    /\ nruns = 0
    /\ nother = 0
    /\ fnArgs = NoFnArgs
    /\ fnRes = NoFnRes

\* entry of a handler up to its first cluster call
Enter(p, e) ==
    /\ ev' = [ev EXCEPT ![p] = e]
    /\ items' = [items EXCEPT ![p] = {}]
    /\ calls' = [calls EXCEPT ![p] = <<>>]
    /\ infos' = [infos EXCEPT ![p] = <<>>]
    /\ before' = [before EXCEPT ![p] = cluster]
    /\ quiet' = [quiet EXCEPT ![p] = TRUE]
    /\ nruns' = nruns + 1
    /\ IF e.handler = "cleanup_ingress"
          \/ ~HasAnnotation(e.annotations, AUTO_INGRESS_ANNOTATION)
       THEN /\ pc' = [pc EXCEPT ![p] = "list"]
            /\ outcome' = [outcome EXCEPT ![p] = Running]
       ELSE LET d == Desired(e)
            IN  CASE d.kind = "value" ->
                       /\ pc' = [pc EXCEPT ![p] = "create"]
                       /\ outcome' = [outcome EXCEPT ![p] = Running]
                  [] d.kind = "TemporaryError" ->
                       /\ pc' = [pc EXCEPT ![p] = "done"]
                       /\ outcome' = [outcome EXCEPT ![p] = TemporaryError]
                  [] OTHER ->
                       /\ pc' = [pc EXCEPT ![p] = "done"]
                       /\ outcome' = [outcome EXCEPT ![p] = KeyError]
    /\ UNCHANGED <<cluster, nother, fnArgs, fnRes>>

\* the runtime delivers an event to a handler
Deliver(p) ==
    /\ pc[p] \in {"idle", "done"}
    /\ nruns < MaxRuns
    /\ \E e \in Events : Enter(p, e)
    /\ prior' = [prior EXCEPT ![p] = NoPrior]

\* the runtime delivers the same event again (at-least-once delivery)
Redeliver(p) ==
    /\ pc[p] = "done"
    /\ nruns < MaxRuns
    /\ Enter(p, ev[p])
    /\ prior' = [prior EXCEPT ![p] =
                    IF ~quiet[p] THEN Interfered
                    ELSE Prior("run", outcome[p], calls[p], before[p])]

\* how a failed list or delete call ends the handler: manage_ingress wraps
\* the ApiException (lines 82-83), cleanup_ingress lets it propagate
ListDeleteFailure(e) ==
    IF e.handler = "manage_ingress" THEN TemporaryError ELSE ApiException

Finish(p, out) ==
    /\ pc' = [pc EXCEPT ![p] = "done"]
    /\ outcome' = [outcome EXCEPT ![p] = out]

\* lines 77 and 114: the list call
ListStep(p) ==
    /\ pc[p] = "list"
    /\ \/ /\ calls' = [calls EXCEPT ![p] =
                        Append(@, Call("list", ev[p].namespace, <<>>, <<>>, 500))]
          /\ Finish(p, ListDeleteFailure(ev[p]))
          /\ UNCHANGED items
       \/ LET listed == ListNamespaced(cluster, ev[p].namespace)
          IN  /\ calls' = [calls EXCEPT ![p] =
                            Append(@, Call("list", ev[p].namespace, <<>>, <<>>, 200))]
              /\ items' = [items EXCEPT ![p] = listed]
              /\ IF Family(listed, ev[p].name) = {}
                 THEN Finish(p, Returned)
                 ELSE /\ pc' = [pc EXCEPT ![p] = "loop"]
                      /\ UNCHANGED outcome
    /\ UNCHANGED <<cluster, ev, infos, before, quiet, prior, nruns, nother,
                   fnArgs, fnRes>>

\* lines 78-81 and 115-118: the next listed family member is deleted and the
\* deletion recorded; the order of the list result is left open
LoopStep(p) ==
    /\ pc[p] = "loop"
    /\ \E ing \in Family(items[p], ev[p].name) :
          \/ /\ Exists(cluster, ev[p].namespace, ing.name)
             /\ cluster' = DeleteNamespaced(cluster, ing.name, ev[p].namespace)
             /\ calls' = [calls EXCEPT ![p] =
                    Append(@, Call("delete", ev[p].namespace, ing.name, <<>>, 200))]
             /\ \/ /\ infos' = [infos EXCEPT ![p] =
                          Append(@, Info(ReasonDeleted, ing.name))]
                   /\ items' = [items EXCEPT ![p] = @ \ {ing}]
                   /\ IF Family(items[p] \ {ing}, ev[p].name) = {}
                      THEN Finish(p, Returned)
                      ELSE UNCHANGED <<pc, outcome>>
                \/ /\ Finish(p, RecordingError)
                   /\ UNCHANGED <<infos, items>>
          \/ /\ ~Exists(cluster, ev[p].namespace, ing.name)
             /\ calls' = [calls EXCEPT ![p] =
                    Append(@, Call("delete", ev[p].namespace, ing.name, <<>>, 404))]
             /\ Finish(p, ListDeleteFailure(ev[p]))
             /\ UNCHANGED <<cluster, infos, items>>
          \/ /\ calls' = [calls EXCEPT ![p] =
                    Append(@, Call("delete", ev[p].namespace, ing.name, <<>>, 500))]
             /\ Finish(p, ListDeleteFailure(ev[p]))
             /\ UNCHANGED <<cluster, infos, items>>
    /\ UNCHANGED <<ev, before, quiet, prior, nruns, nother, fnArgs, fnRes>>

\* lines 100-106: what the except clause does with a failed create
OnCreateError_always_raise(status) == "raise"
OnCreateError_always_patch(status) == "patch"

OnCreateError(status) == IF status = HTTP_CONFLICT THEN "patch" ELSE "raise"

\* lines 97-100 and 105-106: the create call and its record
CreateStep(p) ==
    /\ pc[p] = "create"
    /\ LET body == Desired(ev[p]).obj
       IN  \/ /\ ~Exists(cluster, ev[p].namespace, body.name)
              /\ cluster' = CreateNamespaced(cluster, ev[p].namespace, body)
              /\ calls' = [calls EXCEPT ![p] =
                     Append(@, Call("create", ev[p].namespace, body.name, <<body>>, 201))]
              /\ \/ /\ infos' = [infos EXCEPT ![p] =
                           Append(@, Info(ReasonCreated, body.name))]
                    /\ Finish(p, Returned)
                 \/ /\ Finish(p, RecordingError)
                    /\ UNCHANGED infos
           \/ /\ \E status \in {HTTP_CONFLICT, 500} :
                    /\ status = HTTP_CONFLICT
                          => Exists(cluster, ev[p].namespace, body.name)
                    /\ calls' = [calls EXCEPT ![p] =
                          Append(@, Call("create", ev[p].namespace, body.name,
                                         <<body>>, status))]
                    /\ IF OnCreateError(status) = "patch"
                       THEN /\ pc' = [pc EXCEPT ![p] = "patch"]
                            /\ UNCHANGED outcome
                       ELSE Finish(p, TemporaryError)
              /\ UNCHANGED <<cluster, infos>>
    /\ UNCHANGED <<ev, items, before, quiet, prior, nruns, nother, fnArgs, fnRes>>

\* lines 101-104: the patch call of the conflict path and its record
PatchStep(p) ==
    /\ pc[p] = "patch"
    /\ LET body == Desired(ev[p]).obj
       IN  \/ /\ Exists(cluster, ev[p].namespace, body.name)
              /\ cluster' = PatchNamespaced(cluster, body.name, ev[p].namespace, body)
              /\ calls' = [calls EXCEPT ![p] =
                     Append(@, Call("patch", ev[p].namespace, body.name, <<body>>, 200))]
              /\ \/ /\ infos' = [infos EXCEPT ![p] =
                           Append(@, Info(ReasonPatched, body.name))]
                    /\ Finish(p, Returned)
                 \/ /\ Finish(p, RecordingError)
                    /\ UNCHANGED infos
           \/ /\ ~Exists(cluster, ev[p].namespace, body.name)
              /\ calls' = [calls EXCEPT ![p] =
                     Append(@, Call("patch", ev[p].namespace, body.name, <<body>>, 404))]
              /\ Finish(p, ApiException)
              /\ UNCHANGED <<cluster, infos>>
           \/ /\ calls' = [calls EXCEPT ![p] =
                     Append(@, Call("patch", ev[p].namespace, body.name, <<body>>, 500))]
              /\ Finish(p, ApiException)
              /\ UNCHANGED <<cluster, infos>>
    /\ UNCHANGED <<ev, items, before, quiet, prior, nruns, nother, fnArgs, fnRes>>

-----------------------------------------------------------------------------
(* Other actors on the cluster *)

OtherActorCreate ==
    /\ nother < MaxOther
    /\ \E obj \in ForeignIngresses :
          /\ ~Exists(cluster, obj.namespace, obj.name)
          /\ cluster' = cluster \cup {obj}
    /\ nother' = nother + 1
    /\ quiet' = [p \in Slots |-> FALSE]
    /\ UNCHANGED <<pc, ev, items, calls, infos, outcome, before, prior, nruns,
                   fnArgs, fnRes>>

OtherActorDelete ==
    /\ nother < MaxOther
    /\ \E obj \in cluster : cluster' = cluster \ {obj}
    /\ nother' = nother + 1
    /\ quiet' = [p \in Slots |-> FALSE]
    /\ UNCHANGED <<pc, ev, items, calls, infos, outcome, before, prior, nruns,
                   fnArgs, fnRes>>

\* handlers one at a time, other actors at any moment
Next ==
    \/ \E p \in Slots : Deliver(p)
    \/ \E p \in Slots : Redeliver(p)
    \/ \E p \in Slots : ListStep(p)
    \/ \E p \in Slots : LoopStep(p)
    \/ \E p \in Slots : CreateStep(p)
    \/ \E p \in Slots : PatchStep(p)
    \/ OtherActorCreate
    \/ OtherActorDelete

Spec == Init /\ [][Next]_vars

-----------------------------------------------------------------------------
(* Two handlers of one Service running at once: the runtime delivers the
   next event of a Service while the handler of the previous one is still
   between two cluster calls *)

ConcSlots == {1, 2}

\* what the cluster may hold when the first of the two handlers is entered:
\* nothing, an object of another actor, or the Ingress of an earlier run
ConcClusters ==
    {{}} \cup {{obj} : obj \in ForeignIngresses}
         \cup {{Desired(e).obj} :
                 e \in {m \in ManageEvents :
                          /\ HasAnnotation(m.annotations, AUTO_INGRESS_ANNOTATION)
                          /\ Desired(m).kind = "value"}}

InitConc ==
    /\ cluster \in ConcClusters
    /\ pc = [p \in ConcSlots |-> "idle"]
    /\ ev = [p \in ConcSlots |-> NoEvent]
    /\ items = [p \in ConcSlots |-> {}]
    /\ calls = [p \in ConcSlots |-> <<>>]
    /\ infos = [p \in ConcSlots |-> <<>>]
    /\ outcome = [p \in ConcSlots |-> Running]
    /\ before = [p \in ConcSlots |-> {}]
    /\ quiet = [p \in ConcSlots |-> TRUE]
    /\ prior = [p \in ConcSlots |-> NoPrior]
    /\ nruns = 0
    /\ nother = 0
    /\ fnArgs = NoFnArgs
    /\ fnRes = NoFnRes

\* the first handler is entered
DeliverFirst(p) ==
    /\ \A q \in ConcSlots : pc[q] = "idle"
    /\ Deliver(p)

\* while the handler in slot q is in flight, the runtime delivers to slot p
\* another event of the same Service: the same event again, a changed
\* Service, or its deletion
DeliverConcurrent(p, q) ==
    /\ p # q
    /\ pc[p] = "idle"
    /\ pc[q] \notin {"idle", "done"}
    /\ nruns < MaxRuns
    /\ \E e \in Events :
          /\ e.namespace = ev[q].namespace
          /\ e.name = ev[q].name
          /\ e.uid = ev[q].uid
          /\ Enter(p, e)
    /\ prior' = [prior EXCEPT ![p] =
                    Prior("concurrent", outcome[q], calls[q], before[q])]

NextConc ==
    \/ DeliverFirst(1)
    \/ DeliverConcurrent(2, 1)
    \/ \E p \in ConcSlots : ListStep(p)
    \/ \E p \in ConcSlots : LoopStep(p)
    \/ \E p \in ConcSlots : CreateStep(p)
    \/ \E p \in ConcSlots : PatchStep(p)

SpecConc == InitConc /\ [][NextConc]_vars


-----------------------------------------------------------------------------
(* The pure functions called directly, on every input of a bounded set *)

FnPorts == {HttpPort, MetricsPort, BarePort, NoNamePort, NoTargetPort,
            NoPortKeyNamed, NoPortKeyBare, NoPortKeyNoTarget}
FnNames == {Svc, Svc2, SvcA}
FnPortIds == {HttpName, IntToStr(80)}

InitFn ==
    /\ cluster = {}
    /\ pc = [p \in Slots |-> "idle"]
    /\ ev = [p \in Slots |-> NoEvent]
    /\ items = [p \in Slots |-> {}]
    /\ calls = [p \in Slots |-> <<>>]
    /\ infos = [p \in Slots |-> <<>>]
    /\ outcome = [p \in Slots |-> Running]
    /\ before = [p \in Slots |-> {}]
    /\ quiet = [p \in Slots |-> TRUE]
    /\ prior = [p \in Slots |-> NoPrior]
    /\ nruns = 0
    /\ nother = 0
    /\ fnArgs \in {FnArgs(ports, s1, s2, pid) :
                     ports \in SeqsUpTo(FnPorts, MaxFnPorts),
                     s1 \in FnNames, s2 \in FnNames, pid \in FnPortIds}
    /\ fnRes = NoFnRes

\* find_http_port(ports)
CallFindHttpPort ==
    /\ fnRes.op = "none"
    /\ fnRes' = FnRes("find_http_port", find_http_port(fnArgs.ports), <<>>, FALSE)
    /\ UNCHANGED <<cluster, pc, ev, items, calls, infos, outcome, before, quiet,
                   prior, nruns, nother, fnArgs>>

\* build_ingress_name(s2, pid), and the filter of lines 79 and 116 applied
\* to it for the Service s1
CallBuildIngressName ==
    /\ fnRes.op = "none"
    /\ LET name == build_ingress_name(fnArgs.s2, fnArgs.pid)
       IN  fnRes' = FnRes("build_ingress_name", NoneValue, name,
                          StartsWith(name, ingress_name_prefix(fnArgs.s1)))
    /\ UNCHANGED <<cluster, pc, ev, items, calls, infos, outcome, before, quiet,
                   prior, nruns, nother, fnArgs>>

NextFn == CallFindHttpPort \/ CallBuildIngressName

SpecFn == InitFn /\ [][NextFn]_vars

-----------------------------------------------------------------------------
(* Vocabulary of the properties *)

\* the handler runs its delete path: cleanup_ingress, or manage_ingress
\* without the annotation
DeletePath(e) ==
    \/ e.handler = "cleanup_ingress"
    \/ /\ e.handler = "manage_ingress"
       /\ ~HasAnnotation(e.annotations, AUTO_INGRESS_ANNOTATION)

\* manage_ingress with the annotation present
UpsertPath(e) ==
    /\ e.handler = "manage_ingress"
    /\ HasAnnotation(e.annotations, AUTO_INGRESS_ANNOTATION)

\* obj carries an owner reference to the Service of event e
OwnedBy(obj, e) ==
    /\ obj.namespace = e.namespace
    /\ \E k \in 1..Len(obj.owner_references) :
          /\ obj.owner_references[k].kind = "Service"
          /\ obj.owner_references[k].name = e.name

\* identifiers of the ports Services carry here
KnownPortIds == {PortIdentifier(port) : port \in {HttpPort, MetricsPort, BarePort}}

\* obj is an Ingress of the Service of event e: it refers to the Service as
\* its owner, or bears a name the reconciler generates for the Service
BelongsTo(obj, e) ==
    \/ OwnedBy(obj, e)
    \/ /\ obj.namespace = e.namespace
       /\ \E pid \in KnownPortIds : obj.name = build_ingress_name(e.name, pid)

DeleteCalls(cs) == {k \in 1..Len(cs) : cs[k].op = "delete"}
SubmitCalls(cs) == {k \in 1..Len(cs) : cs[k].op \in {"create", "patch"}}

\* no call of the invocation was answered with a server error
NoInjectedFailure(cs) == \A k \in 1..Len(cs) : cs[k].status # 500

\* the port has a name and it is "http"
IsNamedHttp(port) == "name" \in port.keys /\ port.name = HttpName

-----------------------------------------------------------------------------
(* C1..C10 *)

\* C1: for distinct service names s1 # s2 and any port identifier, the name
\* build_ingress_name(s2, pid) is not selected by the startswith filter of s1.
C1_NoPrefixFalsePositive ==
    (fnRes.op = "build_ingress_name" /\ fnArgs.s1 # fnArgs.s2) => ~fnRes.matched

\* C2: a delete-path run for Service S removes no Ingress but those of S:
\* every Ingress of another Service or of no Service exists unchanged.
C2_OnlyOwnIngressesDeleted ==
    \A p \in Slots :
        (quiet[p] /\ DeletePath(ev[p]))
            => \A obj \in before[p] \ cluster : BelongsTo(obj, ev[p])

\* C3: when manage_ingress without the annotation returns normally, no
\* Ingress of the Service's family remains, whatever the family was; the
\* delete calls are exactly one per family member of the list result (none
\* for an empty family) and the cluster is the listed one minus that family.
C3_RemovalLeavesNoFamily ==
    \A p \in Slots :
        ( /\ pc[p] = "done"
          /\ quiet[p]
          /\ ev[p].handler = "manage_ingress"
          /\ DeletePath(ev[p])
          /\ outcome[p] = Returned )
        => LET ns == ev[p].namespace
               fam == Family(ListNamespaced(before[p], ns), ev[p].name)
           IN  /\ Family(ListNamespaced(cluster, ns), ev[p].name) = {}
               /\ Ops(calls[p])[1] = "list"
               /\ Len(calls[p]) = 1 + Cardinality(fam)
               /\ {calls[p][k].name : k \in DeleteCalls(calls[p])}
                      = {obj.name : obj \in fam}
               /\ cluster = before[p] \ fam

C3_Witness ==
    \E p \in Slots :
        /\ pc[p] = "done"
        /\ quiet[p]
        /\ ev[p].handler = "manage_ingress"
        /\ DeletePath(ev[p])
        /\ outcome[p] = Returned
        /\ DeleteCalls(calls[p]) # {}

\* C4: the same manage_ingress event handled twice in a row without failed
\* calls or records: the first run creates, the second run submits the identical
\* object, gets 409 on create, patches and returns normally; no object is
\* added by the second run, and a Service that had no Ingress before ends
\* with exactly one, equal to the desired object.
C4_ReplayTakesConflictPatchPath ==
    \A p \in Slots :
        /\ ( /\ pc[p] = "done"
             /\ quiet[p]
             /\ UpsertPath(ev[p])
             /\ prior[p].kind = "none"
             /\ calls[p] # <<>>
             /\ NoInjectedFailure(calls[p])
             /\ outcome[p] # RecordingError
             /\ ~Exists(before[p], ev[p].namespace, calls[p][1].name) )
           => /\ Ops(calls[p]) = <<"create">>
              /\ outcome[p] = Returned
        /\ ( /\ pc[p] = "done"
             /\ quiet[p]
             /\ UpsertPath(ev[p])
             /\ prior[p].kind = "run"
             /\ prior[p].outcome = Returned
             /\ Ops(prior[p].calls) = <<"create">>
             /\ NoInjectedFailure(calls[p])
             /\ outcome[p] # RecordingError )
           => LET first == prior[p].calls[1].body[1]
              IN  /\ outcome[p] = Returned
                  /\ Ops(calls[p]) = <<"create", "patch">>
                  /\ Statuses(calls[p]) = <<HTTP_CONFLICT, 200>>
                  /\ calls[p][1].body = <<first>>
                  /\ calls[p][2].body = <<first>>
                  /\ Stored(cluster, ev[p].namespace, first.name) = {first}
                  /\ cluster = prior[p].before \cup {first}
                  /\ cluster = before[p]
                  /\ {obj \in prior[p].before : OwnedBy(obj, ev[p])} = {}
                        => {obj \in cluster : OwnedBy(obj, ev[p])} = {first}

C4_Witness ==
    \E p \in Slots :
        /\ pc[p] = "done"
        /\ quiet[p]
        /\ prior[p].kind = "run"
        /\ Ops(prior[p].calls) = <<"create">>
        /\ Ops(calls[p]) = <<"create", "patch">>
        /\ outcome[p] = Returned
        /\ {obj \in cluster : OwnedBy(obj, ev[p])} = {calls[p][2].body[1]}

\* C5: find_http_port returns the first port named "http" if there is one,
\* otherwise the first port, otherwise (empty list) None, and raises on no
\* port list, whether its ports have a name set or not.
C5_PortSelectionPolicy ==
    fnRes.op = "find_http_port"
        => LET ports == fnArgs.ports
               named == {k \in 1..Len(ports) : IsNamedHttp(ports[k])}
           IN  fnRes.sel =
                 IF named # {}
                 THEN Value(ports[CHOOSE k \in named : \A j \in named : k <= j])
                 ELSE IF Len(ports) > 0 THEN Value(ports[1])
                 ELSE NoneValue

\* C6: manage_ingress with the annotation present and an empty port list
\* ends with a TemporaryError carrying a delay, having issued no cluster
\* call at all; the cluster is as it was.
C6_NoPortsIsRetryableWithoutMutation ==
    \A p \in Slots :
        (pc[p] = "done" /\ UpsertPath(ev[p]) /\ ev[p].ports = <<>>)
            => /\ outcome[p].kind = "TemporaryError"
               /\ outcome[p].delay > 0
               /\ calls[p] = <<>>
               /\ quiet[p] => cluster = before[p]

C6_Witness ==
    \E p \in Slots :
        /\ pc[p] = "done"
        /\ UpsertPath(ev[p])
        /\ ev[p].ports = <<>>
        /\ outcome[p] = TemporaryError
        /\ cluster # {}

\* C7: every Ingress manage_ingress submits is named
\* auto-ingress-<service>-<port name, or port number when the name is
\* unset>, lies in the Service's namespace and has one rule with one path:
\* the annotation value, type Prefix, backend the Service on targetPort if
\* set, else port; the port number is taken only from a port that has one.
C7_SubmittedIngressShape ==
    \A p \in Slots : \A k \in SubmitCalls(calls[p]) :
        LET body == calls[p][k].body[1]
            port == find_http_port(ev[p].ports).val
            portId == IF port.name # <<>> THEN port.name ELSE IntToStr(port.port)
        IN  /\ Len(calls[p][k].body) = 1
            /\ {"name", "targetPort"} \subseteq port.keys
            /\ (port.name = <<>> \/ port.targetPort = 0) => "port" \in port.keys
            /\ body.name = AutoIngressDash \o ev[p].name \o <<"-">> \o portId
            /\ calls[p][k].name = body.name
            /\ body.namespace = ev[p].namespace
            /\ calls[p][k].namespace = ev[p].namespace
            /\ Len(body.rules) = 1
            /\ Len(body.rules[1].paths) = 1
            /\ body.rules[1].paths[1] =
                 [path |-> AnnotationValue(ev[p].annotations, AUTO_INGRESS_ANNOTATION),
                  path_type |-> "Prefix",
                  backend_name |-> ev[p].name,
                  backend_number |->
                      IF port.targetPort # 0 THEN port.targetPort ELSE port.port]

\* a port without a name and without a targetPort was submitted
C7_Witness ==
    \E p \in Slots : \E k \in SubmitCalls(calls[p]) :
        /\ ev[p].ports = <<BarePort>>
        /\ calls[p][k].status = 201
        /\ calls[p][k].body[1].name = AutoIngressDash \o ev[p].name \o <<"-">> \o IntToStr(9090)
        /\ calls[p][k].body[1].rules[1].paths[1].backend_number = 9090

\* C8: every Ingress passed to create or patch carries exactly one owner
\* reference: v1 Service, controller and blockOwnerDeletion true, the
\* Service's name, and the uid of the event, never the empty placeholder.
C8_OwnerReferenceOfSubmitted ==
    \A p \in Slots : \A k \in SubmitCalls(calls[p]) :
        LET refs == calls[p][k].body[1].owner_references
        IN  /\ Len(refs) = 1
            /\ refs[1] = [api_version |-> "v1", kind |-> "Service",
                          name |-> ev[p].name, uid |-> ev[p].uid,
                          controller |-> TRUE, block_owner_deletion |-> TRUE]
            /\ refs[1].uid # ""

C8_Witness ==
    \E p \in Slots : \E k \in SubmitCalls(calls[p]) :
        /\ calls[p][k].op = "patch"
        /\ calls[p][k].body[1].owner_references[1].uid = "u2"

\* C9: a delete call answered 404 is treated as success: the handler raises
\* no error.
C9_NotFoundOnDeleteIsSuccess ==
    \A p \in Slots : \A k \in DeleteCalls(calls[p]) :
        calls[p][k].status = 404 => outcome[p].kind \in {"running", "returned"}

\* C10: every failed cluster call other than a 409 on create ends the
\* handler with a TemporaryError carrying a retry delay.
C10_FailuresAreTemporaryErrors ==
    \A p \in Slots : \A k \in 1..Len(calls[p]) :
        (calls[p][k].status \notin {200, 201}
            /\ ~(calls[p][k].op = "create" /\ calls[p][k].status = HTTP_CONFLICT))
        => /\ outcome[p].kind = "TemporaryError"
           /\ outcome[p].delay > 0

-----------------------------------------------------------------------------
(* C11..C19 *)

\* C11: when cleanup_ingress returns normally, no Ingress of the deleted
\* Service's family remains and one IngressDeleted record was made per
\* deleted Ingress; the cluster left is the listed one minus the family,
\* whatever annotations the Service carried.
C11_CleanupRemovesFamilyAndReports ==
    \A p \in Slots :
        ( /\ pc[p] = "done"
          /\ quiet[p]
          /\ ev[p].handler = "cleanup_ingress"
          /\ outcome[p] = Returned )
        => LET ns == ev[p].namespace
               prefix == AutoIngressDash \o ev[p].name
               fam == {obj \in before[p] :
                          obj.namespace = ns /\ StartsWith(obj.name, prefix)}
           IN  /\ {obj \in cluster :
                      obj.namespace = ns /\ StartsWith(obj.name, prefix)} = {}
               /\ cluster = before[p] \ fam
               /\ Len(infos[p]) = Cardinality(fam)
               /\ \A k \in 1..Len(infos[p]) : infos[p][k].reason = "IngressDeleted"
               /\ {infos[p][k].about : k \in 1..Len(infos[p])}
                      = {obj.name : obj \in fam}

\* a Service that carried the annotation was cleaned up, an Ingress deleted
C11_Witness ==
    \E p \in Slots :
        /\ pc[p] = "done"
        /\ quiet[p]
        /\ ev[p].handler = "cleanup_ingress"
        /\ HasAnnotation(ev[p].annotations, AUTO_INGRESS_ANNOTATION)
        /\ outcome[p] = Returned
        /\ Len(infos[p]) >= 1

\* C12: a Service is deleted while a manage_ingress run for it is in
\* flight; once that run and cleanup_ingress have both returned normally, no
\* Ingress of the Service's family remains in the cluster.
C12_NoFamilyAfterDeletionMidReconcile ==
    ( /\ pc[1] = "done"
      /\ pc[2] = "done"
      /\ UpsertPath(ev[1])
      /\ ev[2].handler = "cleanup_ingress"
      /\ prior[2].kind = "concurrent"
      /\ outcome[1] = Returned
      /\ outcome[2] = Returned )
    => {obj \in cluster :
           /\ obj.namespace = ev[1].namespace
           /\ StartsWith(obj.name, AutoIngressDash \o ev[1].name)} = {}

\* C13: two manage_ingress runs for the same event run concurrently, no
\* Ingress of the Service's family existing when the first is entered and no
\* call or record failing: both return normally, one made the create and
\* recorded IngressCreated, the other met 409, patched and recorded
\* IngressPatched, and the cluster is the one found plus the desired object.
C13_ConcurrentReplaysConverge ==
    ( /\ pc[1] = "done"
      /\ pc[2] = "done"
      /\ UpsertPath(ev[1])
      /\ ev[2] = ev[1]
      /\ prior[2].kind = "concurrent"
      /\ {obj \in before[1] :
             /\ obj.namespace = ev[1].namespace
             /\ StartsWith(obj.name, AutoIngressDash \o ev[1].name)} = {}
      /\ \A p \in ConcSlots :
            /\ NoInjectedFailure(calls[p])
            /\ outcome[p] # RecordingError )
    => LET d == Desired(ev[1]).obj
       IN  /\ outcome[1] = Returned
           /\ outcome[2] = Returned
           /\ \E p \in ConcSlots : \E q \in ConcSlots \ {p} :
                 /\ Ops(calls[p]) = <<"create">>
                 /\ Statuses(calls[p]) = <<201>>
                 /\ infos[p] = <<Info("IngressCreated", d.name)>>
                 /\ Ops(calls[q]) = <<"create", "patch">>
                 /\ Statuses(calls[q]) = <<409, 200>>
                 /\ infos[q] = <<Info("IngressPatched", d.name)>>
           /\ cluster = before[1] \cup {d}
           /\ {obj \in cluster :
                  /\ obj.namespace = ev[1].namespace
                  /\ StartsWith(obj.name, AutoIngressDash \o ev[1].name)} = {d}

\* both replays are done, the second having been entered before the first
\* made its create call
C13_Witness ==
    /\ pc[1] = "done"
    /\ pc[2] = "done"
    /\ UpsertPath(ev[1])
    /\ ev[2] = ev[1]
    /\ prior[2].kind = "concurrent"
    /\ prior[2].calls = <<>>
    /\ before[1] = {}
    /\ before[2] = {}
    /\ outcome[1] = Returned
    /\ outcome[2] = Returned
    /\ Ops(calls[1]) = <<"create", "patch">>

\* C14 (as stated): every recorded reason is IngressCreated, IngressUpdated
\* or IngressDeleted, and the conflict-then-patch path records IngressUpdated.
C14_ReasonsCreatedUpdatedDeleted ==
    \A p \in Slots : \A k \in 1..Len(infos[p]) :
        /\ infos[p][k].reason \in {"IngressCreated", "IngressUpdated", "IngressDeleted"}
        /\ \A j \in 1..Len(calls[p]) :
              (calls[p][j].op = "patch" /\ calls[p][j].status = 200
                    /\ outcome[p] # RecordingError)
              => infos[p][Len(infos[p])].reason = "IngressUpdated"

\* C14: every recorded reason is IngressCreated, IngressPatched or
\* IngressDeleted; the records of an invocation follow its successful
\* create, patch and delete calls one for one, a create recorded as
\* IngressCreated, a patch as IngressPatched, a delete as IngressDeleted,
\* each about the object of the call.
C14_ReasonsCreatedPatchedDeleted ==
    \A p \in Slots :
        LET done == SelectSeq(calls[p],
                        LAMBDA c : c.op \in {"create", "patch", "delete"}
                                      /\ c.status \in {200, 201})
            reasonOf(op) == CASE op = "create" -> "IngressCreated"
                              [] op = "patch" -> "IngressPatched"
                              [] op = "delete" -> "IngressDeleted"
        IN  /\ Len(infos[p]) =
                  IF outcome[p] = RecordingError THEN Len(done) - 1 ELSE Len(done)
            /\ \A k \in 1..Len(infos[p]) :
                  /\ infos[p][k].reason = reasonOf(done[k].op)
                  /\ infos[p][k].about = done[k].name
                  /\ infos[p][k].reason
                        \in {"IngressCreated", "IngressPatched", "IngressDeleted"}

\* a conflict-then-patch run has made its record
C14_Witness ==
    \E p \in Slots :
        /\ pc[p] = "done"
        /\ outcome[p] = Returned
        /\ Ops(calls[p]) = <<"create", "patch">>
        /\ Len(infos[p]) = 1
        /\ infos[p][1].reason = "IngressPatched"

\* C15: a failed record does not change the cluster state a handler reaches;
\* on the delete path, once the handler has finished with none of its
\* cluster calls failed, no family member is left, whether or not a record
\* failed.
C15_RecordFailureKeepsDeleting ==
    \A p \in Slots :
        ( /\ pc[p] = "done"
          /\ quiet[p]
          /\ DeletePath(ev[p])
          /\ \A k \in 1..Len(calls[p]) : calls[p][k].status = 200 )
        => {obj \in cluster :
               /\ obj.namespace = ev[p].namespace
               /\ StartsWith(obj.name, AutoIngressDash \o ev[p].name)} = {}

\* C16: at the step by which manage_ingress with the annotation present
\* returns normally, the cluster holds exactly one Ingress under the
\* deterministic name in the Service's namespace, and its rules (path,
\* backend service and port), ingress-class annotation and owner references
\* are those of the desired object built from the event, whatever was stored
\* under that name before.
C16_ReturnLeavesDesiredIngress ==
    [][ \A p \in Slots :
          ( /\ pc[p] # "done"
            /\ pc'[p] = "done"
            /\ outcome'[p] = Returned
            /\ UpsertPath(ev'[p]) )
          => LET d == Desired(ev'[p]).obj
                 got == {obj \in cluster' :
                            obj.namespace = ev'[p].namespace /\ obj.name = d.name}
             IN  /\ Cardinality(got) = 1
                 /\ \A obj \in got :
                       /\ obj.rules = d.rules
                       /\ obj.owner_references = d.owner_references
                       /\ <<INGRESS_CLASS_ANNOTATION, INGRESS_CLASS_VALUE>>
                             \in obj.annotations
                       /\ \A kv \in obj.annotations :
                             kv[1] = INGRESS_CLASS_ANNOTATION
                                => kv[2] = INGRESS_CLASS_VALUE ]_vars

\* the conflict-then-patch path has returned over an object that differed
\* from the desired one in its rules or its owner references
C16_Witness ==
    \E p \in Slots :
        /\ pc[p] = "done"
        /\ outcome[p] = Returned
        /\ UpsertPath(ev[p])
        /\ quiet[p]
        /\ Ops(calls[p]) = <<"create", "patch">>
        /\ LET d == Desired(ev[p]).obj
           IN  /\ \E old \in before[p] :
                     /\ old.namespace = d.namespace
                     /\ old.name = d.name
                     /\ old.rules # d.rules
                     /\ old.owner_references # d.owner_references
               /\ \E obj \in cluster :
                     /\ obj.namespace = d.namespace
                     /\ obj.name = d.name
                     /\ obj.rules = d.rules
                     /\ obj.owner_references = d.owner_references

\* C17: after a run of manage_ingress with the annotation present returns
\* normally, no other actor ever having touched the cluster, the Ingresses
\* owned by the Service are exactly one: the desired one, named for the
\* port selected from the current event.
C17_OneIngressPerService ==
    \A p \in Slots :
        ( /\ pc[p] = "done"
          /\ outcome[p] = Returned
          /\ UpsertPath(ev[p])
          /\ quiet[p]
          /\ nother = 0 )
        => {obj \in cluster :
               /\ obj.namespace = ev[p].namespace
               /\ OwnedBy(obj, ev[p])} = {Desired(ev[p]).obj}

\* C18 (as stated): a finished manage_ingress invocation with the annotation
\* present has issued exactly one create call.
C18_ExactlyOneCreate ==
    \A p \in Slots :
        (pc[p] = "done" /\ UpsertPath(ev[p]))
        => Cardinality({k \in 1..Len(calls[p]) : calls[p][k].op = "create"}) = 1

\* C18: a manage_ingress invocation with the annotation present issues no
\* call when no desired object could be built (no ports, or a port without
\* the keys read), and otherwise one create call, followed by one patch call
\* exactly when the create answered 409; it issues no list or delete call,
\* and while it has not finished its next call can be made.
C18_CallBudgetOfUpsert ==
    \A p \in Slots :
        UpsertPath(ev[p])
        => LET ops == Ops(calls[p])
               built == Desired(ev[p]).kind = "value"
           IN  /\ ops \in {<<>>, <<"create">>, <<"create", "patch">>}
               /\ pc[p] \in {"create", "patch", "done"}
               /\ pc[p] = "create" => ops = <<>> /\ built
               /\ pc[p] = "patch" => ops = <<"create">> /\ calls[p][1].status = 409
               /\ Len(ops) = 2 => calls[p][1].status = 409
               /\ pc[p] = "done" =>
                     /\ built <=> Len(ops) >= 1
                     /\ (Len(ops) = 1 => calls[p][1].status # 409)
                     /\ outcome[p] # Running
               /\ pc[p] = "create" => ENABLED CreateStep(p)
               /\ pc[p] = "patch" => ENABLED PatchStep(p)

\* an invocation has finished after a create answered 409 and one patch
C18_Witness ==
    \E p \in Slots :
        /\ pc[p] = "done"
        /\ UpsertPath(ev[p])
        /\ Ops(calls[p]) = <<"create", "patch">>
        /\ calls[p][1].status = 409
        /\ outcome[p] \in {Returned, ApiException}

\* C19: every cluster call of a handler is made in the namespace of the
\* Service of its event, and the step that makes it leaves the Ingress
\* objects of every other namespace as they were.
C19_OnlyOwnNamespaceTouched ==
    [][ \A p \in Slots :
          (calls'[p] # calls[p] /\ calls'[p] # <<>>)
          => LET ns == ev[p].namespace
                 c == calls'[p][Len(calls'[p])]
             IN  /\ c.namespace = ns
                 /\ {obj \in cluster' : obj.namespace # ns}
                       = {obj \in cluster : obj.namespace # ns}
                 /\ \A obj \in (cluster' \ cluster) \cup (cluster \ cluster') :
                       obj.namespace = ns ]_vars

\* a handler has deleted an Ingress in its namespace while an Ingress of the
\* same name is stored in another namespace
C19_Witness ==
    \E p \in Slots :
        /\ pc[p] = "done"
        /\ \E k \in 1..Len(calls[p]) :
              /\ calls[p][k].op = "delete"
              /\ calls[p][k].status = 200
              /\ calls[p][k].namespace = ev[p].namespace
              /\ \E obj \in cluster :
                    /\ obj.name = calls[p][k].name
                    /\ obj.namespace # ev[p].namespace

====
